---- MODULE Spec2Model ----
(***************************************************************************)
(* statelet: the reactive container state(), compose()/enhance(), the       *)
(* set-intercepting enhancers withValidation and withDebounce, and the     *)
(* observing enhancer withEffect, and the external sync enhancers          *)
(* withUrlParams, withHashParams and withStorage.                          *)
(*                                                                         *)
(* Every public call (set, subscribe, the returned unsubscribe, a debounce *)
(* timer firing) is one action.  A call runs to completion, nested         *)
(* listener callbacks and re-entrant set calls included, so its effect is  *)
(* computed by recursive operators over a machine record                   *)
(*   [cur, ls, timers, previous, surface, attached, fails, trace, threw,   *)
(*    issues, depth]                                                       *)
(* and committed to the variables in one step.  trace is the sequence of   *)
(* events of the call just made: what it stored, which listener it invoked *)
(* with which value, which layer's set it entered.                         *)
(***************************************************************************)
EXTENDS Integers, Sequences, FiniteSets, TLC

VARIABLES
  current,    \* state(): let current
  listeners,  \* state(): the Set of callbacks, as its insertion-ordered entry list
  stack,      \* the enhancers wrapped around the base container, innermost first
  decl,       \* the enhancers as declared to compose()/enhance()
  timers,     \* withDebounce: the pending timeout of each debounce layer
  previous,   \* withEffect: let previous of each effect layer
  window,     \* typeof window !== 'undefined'
  surface,    \* the query string, hash or storage record of each sync layer
  attached,   \* whether the popstate/hashchange handler of a layer is registered
  unsubs,     \* the unsubscribe functions returned so far
  op,         \* the call just made
  trace,      \* the events of the call just made
  other       \* a second base container, given the same stack or not yet

vars == <<current, listeners, stack, decl, timers, previous, window, surface,
          attached, unsubs, op, trace, other>>

----------------------------------------------------------------------------
(* Bounds and value domain *)

MaxVal == 6
MaxStack == 2
ClampAt == 3
SchemaCap == 4

\* the JavaScript value undefined, distinct from every number 0..MaxVal
Undefined == -1

Values == {Undefined} \cup (0 .. MaxVal)

\* object values {a, b}: a field is absent or holds 1 or 2
Absent == 0
FieldVals == {Absent, 1, 2}
FieldRecs == [a : FieldVals, b : FieldVals]
NumFieldVals == Cardinality(FieldVals)

\* objects are numbered after the numbers 0..MaxVal: an object is its
\* identity (the reference compared by !==) and its fields
ObjBase == MaxVal + 1
Refs == 0 .. MaxStack + 1
Obj(r, fs) == ObjBase + (r * NumFieldVals + fs.a) * NumFieldVals + fs.b
IsObject(v) == v >= ObjBase
RefOf(v) == (v - ObjBase) \div (NumFieldVals * NumFieldVals)

\* the own enumerable properties a spread ...v copies: none for a number or
\* undefined
Fields(v) ==
  IF IsObject(v)
  THEN [a |-> ((v - ObjBase) \div NumFieldVals) % NumFieldVals,
        b |-> (v - ObjBase) % NumFieldVals]
  ELSE [a |-> Absent, b |-> Absent]

\* a set() argument: a literal value or an updater function
Lit(v) == [k |-> "lit", v |-> v]
Upd(f) == [k |-> f, v |-> 0]

Updaters == {"inc", "same"}

Args == {Lit(v) : v \in Values} \cup {Upd(f) : f \in Updaters}

\* the updaters callers pass: prev => prev + 1 (kept inside the value domain)
\* and prev => prev
ApplyUpdater(f, prev) ==
  IF f = "inc"
  THEN IF prev # Undefined /\ prev < MaxVal THEN prev + 1 ELSE prev
  ELSE prev

\* mutant of Resolve: an updater is never called, the value held is kept
ResolveLiteralOnly(arg, prev) ==
  IF arg.k = "lit" THEN arg.v ELSE prev

\* typeof valueOrUpdater === 'function' ? valueOrUpdater(current) : valueOrUpdater
Resolve(arg, prev) ==
  IF arg.k = "lit" THEN arg.v ELSE ApplyUpdater(arg.k, prev)

\* the callbacks callers subscribe: 1 only records what it is given, 2 also
\* writes back, v => { if (v > ClampAt) container.set(ClampAt) }
Listeners == {1, 2}
Clampers == {2}

\* a callback that does not always return:
\* v => { if (v > ClampAt) throw new Error('too large') }
Throwers == {3}

\* enhancers that can be declared
Enhancers == {"validation", "debounce"}

\* withEffect(f), withEffect(f, {immediate: true}), and withEffect(g) for a g
\* that does not always return
EffectEnhancers == {"effect", "effectNow", "effectStrict"}

\* withEffect(h) for an h that writes to the container it observes:
\* (value) => { if (value > ClampAt) base.set(ClampAt) }
ReentrantEffects == {"effectClamp"}

EffectSets(e, value) ==
  /\ e \in ReentrantEffects
  /\ value # Undefined /\ ~IsObject(value) /\ value > ClampAt

\* the effect callbacks callers pass: f records its arguments and returns, g is
\* (value, prev) => { if (value < prev) throw new Error('decreased') }
EffectThrows(e, value, prev) ==
  /\ e = "effectStrict"
  /\ value # Undefined /\ prev # Undefined
  /\ value < prev

\* the callback the effect layer k subscribes to the base container; the
\* callbacks of callers are 1, 2, ...
EffectListener(k) == 0 - k

\* the external sync enhancers withUrlParams, withHashParams, withStorage
SyncEnhancers == {"url", "hash", "storage"}

\* the sync enhancers that listen to the window: popstate, hashchange
InboundEnhancers == {"url", "hash"}

\* the strings of a flat mapping: "" stands for a key that is not there, "x"
\* for a string the codec cannot decode
Strs == {"", "1", "2", "x"}

Stringify(fv) == IF fv = 1 THEN "1" ELSE IF fv = 2 THEN "2" ELSE ""

Parse(str) == IF str = "1" THEN 1 ELSE IF str = "2" THEN 2 ELSE Absent

\* codec.encode(value): a field that is undefined is given no key
Encode(v) == [a |-> Stringify(Fields(v).a), b |-> Stringify(Fields(v).b)]

\* codec.decode(data): total, a missing or invalid key is absent from the
\* partial value
Decode(data) == [a |-> Parse(data.a), b |-> Parse(data.b)]

\* mutant of Merge: base.set(decoded), the decoded fields alone
MergeDecodedOnly(fs, decoded) == decoded

\* mutant of Merge: { ...decoded, ...base.get() }, a field of the value held
\* is kept and a decoded field fills one that is absent
MergeHeldWins(fs, decoded) ==
  [f \in {"a", "b"} |-> IF fs[f] # Absent THEN fs[f] ELSE decoded[f]]

\* { ...base.get(), ...decoded }: a decoded field overwrites, every other
\* field is the one of the value held
Merge(fs, decoded) ==
  [f \in {"a", "b"} |-> IF decoded[f] # Absent THEN decoded[f] ELSE fs[f]]

\* an external surface: the flat mapping it holds, or for a storage record
\* none (getItem returns null or '') or one that JSON.parse rejects
Surface(status, data) == [status |-> status, a |-> data.a, b |-> data.b]

NoData == [a |-> "", b |-> ""]

\* the flat mapping read from a surface, as handed to codec.decode
Data(s) == [k |-> "data", v |-> 0, a |-> s.a, b |-> s.b]

SurfacesOf(e) ==
  {Surface("ok", d) : d \in [a : Strs, b : Strs]}
    \cup (IF e = "storage"
          THEN {Surface("none", NoData), Surface("bad", NoData)}
          ELSE {})

\* the callback the sync layer k subscribes to the container it received
SyncListener(k) == 0 - k

\* withStorage('counter', numberCodec()), the storage enhancer of a container
\* of numbers
NumberStorage == "storageNumber"

\* the record JSON.stringify(numberCodec().encode(v)) stores: the decimal
\* digits of a number, and no number for any other value
NumberRecord(v) ==
  Surface("num", [a |-> IF IsObject(v) \/ v = Undefined THEN "NaN"
                        ELSE ToString(v),
                  b |-> ""])

\* the records of numbers the storage can hold when the container is composed
NumberRecords == {NumberRecord(n) : n \in 0 .. MaxVal}

\* a vacated entry of the Set's entry list (an entry deleted during a forEach)
Hole == 0

NoTimer == [pending |-> FALSE, arg |-> Lit(0)]
Pending(arg) == [pending |-> TRUE, arg |-> arg]

----------------------------------------------------------------------------
(* Events of a call *)

Ev(e, layer, l, arg, v, depth) ==
  [ev |-> e, layer |-> layer, l |-> l, arg |-> arg, v |-> v, depth |-> depth]

Log(m, e) == [m EXCEPT !.trace = Append(@, e)]

----------------------------------------------------------------------------
(* The Set of listeners *)

SeqToSet(s) == {s[i] : i \in DOMAIN s}

\* mutant of SetAdd: an array push, which appends also when present
SetAddPush(ls, l) == Append(ls, l)

\* Set.prototype.add: appends unless present
SetAdd(ls, l) == IF l \in SeqToSet(ls) THEN ls ELSE Append(ls, l)

\* Set.prototype.delete: vacates the entry
SetDelete(ls, l) == [i \in DOMAIN ls |-> IF ls[i] = l THEN Hole ELSE ls[i]]

\* vacated entries are dropped once no iteration is running
Compact(ls) == SelectSeq(ls, LAMBDA x : x # Hole)

----------------------------------------------------------------------------
(* The machine record of a running call *)

Machine ==
  [cur |-> current, ls |-> listeners, timers |-> timers,
   previous |-> previous, surface |-> surface, attached |-> attached,
   fails |-> FALSE, trace |-> <<>>,
   threw |-> "", issues |-> <<>>, depth |-> 0]

\* the Standard Schema a caller passes to withValidation: a number >= 1,
\* coerced down to SchemaCap; anything else is rejected with one issue.  For
\* a container of objects the schema accepts the object as it is unless its
\* field a is 2
Validate(v) ==
  IF IsObject(v)
  THEN IF Fields(v).a = 2
       THEN [ok |-> FALSE, value |-> 0, issues |-> <<"too_big">>]
       ELSE [ok |-> TRUE, value |-> v, issues |-> <<>>]
  ELSE IF v = Undefined \/ v < 1
  THEN [ok |-> FALSE, value |-> 0, issues |-> <<"too_small">>]
  ELSE [ok |-> TRUE, value |-> IF v > SchemaCap THEN SchemaCap ELSE v,
        issues |-> <<>>]

\* state().get
StateGet(m) == m.cur

RECURSIVE StateSet(_, _), Notify(_, _), Invoke(_, _, _), RunListener(_, _, _),
          SetAt(_, _, _), NotifyReversed(_, _), NotifySnapshot(_, _),
          NotifyCatching(_, _)

\* the set of the composed container: the outermost override
TopSet(m, arg) == SetAt(Len(stack), m, arg)

\* mutant of RunEffect: previous = current is run before effect(current,
\* previous)
RunEffectUpdatesFirst(k, m, v) ==
  LET m1 == Log(m, Ev("effect", k, EffectListener(k), Lit(v), v, m.depth))
  IN  IF EffectThrows(stack[k], v, v)
      THEN Log([m1 EXCEPT !.threw = "effect"],
               Ev("throw", k, 0, Lit(v), v, m.depth))
      ELSE [m1 EXCEPT !.previous[k] = v]

\* mutant of RunEffect: previous is never assigned after composition
RunEffectKeepsPrevious(k, m, v) ==
  Log(m, Ev("effect", k, EffectListener(k), Lit(m.previous[k]), v, m.depth))

\* withEffect: (current) => { effect(current, previous); previous = current },
\* the callback of the effect layer k; an exception of effect leaves it
RunEffect(k, m, v) ==
  LET prev == m.previous[k]
      m1 == Log(m, Ev("effect", k, EffectListener(k), Lit(prev), v, m.depth))
      m2 == IF EffectSets(stack[k], v)
            THEN LET r == SetAt(0, [m1 EXCEPT !.depth = @ + 1], Lit(ClampAt))
                 IN  [r EXCEPT !.depth = m.depth]
            ELSE m1
  IN  IF EffectThrows(stack[k], v, prev)
      THEN Log([m1 EXCEPT !.threw = "effect"],
               Ev("throw", k, 0, Lit(prev), v, m.depth))
      ELSE IF m2.threw # "" THEN m2
      ELSE [m2 EXCEPT !.previous[k] = v]

\* mutant of HistoryAdded: every assignment to window.location.hash counts as
\* a navigation, the fragment shown being the same or not
HistoryAddedOnEveryWrite(e, s, data) == IF e = "hash" THEN 1 ELSE 0

\* the entries a write adds to the session history: history.replaceState
\* and localStorage.setItem add none, an assignment to window.location.hash
\* navigates to the new fragment when it differs from the one shown
HistoryAdded(e, s, data) ==
  IF e = "hash" /\ [a |-> s.a, b |-> s.b] # data THEN 1 ELSE 0

\* mutant of RunOutbound: the keys of the encoding are written over the
\* mapping that is there, the other keys are left in place
RunOutboundKeepsKeys(k, m, v) ==
  LET s == m.surface[k]
      data == [f \in {"a", "b"} |->
                 IF Encode(v)[f] # "" THEN Encode(v)[f] ELSE s[f]]
  IN  Log([m EXCEPT !.surface[k] = Surface("ok", data)],
          Ev("write", k, SyncListener(k),
             Lit(HistoryAdded(stack[k], s, data)), v, m.depth))

\* the outbound callback of the sync layer k: the encoding of the whole
\* value replaces the query string, the hash or the storage record.  When
\* codec.encode or the write throws, withStorage catches the exception and
\* withUrlParams/withHashParams let it leave the callback
RunOutbound(k, m, v) ==
  IF m.fails
  THEN LET m1 == Log(m, Ev("writefail", k, SyncListener(k), Lit(0), v,
                           m.depth))
       IN  IF stack[k] \in InboundEnhancers
           THEN Log([m1 EXCEPT !.threw = "write"],
                    Ev("throw", k, 0, Lit(0), v, m.depth))
           ELSE m1
  ELSE Log([m EXCEPT !.surface[k] = IF stack[k] = NumberStorage
                                    THEN NumberRecord(v)
                                    ELSE Surface("ok", Encode(v))],
           Ev("write", k, SyncListener(k),
              Lit(HistoryAdded(stack[k], m.surface[k], Encode(v))),
              v, m.depth))

\* what a subscribed callback does with the value it is given; an object
\* compares false with ClampAt
RunListener(m, l, v) ==
  IF l < 0
  THEN IF stack[0 - l] \in EffectEnhancers \cup ReentrantEffects
       THEN RunEffect(0 - l, m, v)
       ELSE RunOutbound(0 - l, m, v)
  ELSE IF l \in Clampers /\ v # Undefined /\ ~IsObject(v) /\ v > ClampAt
  THEN LET r == TopSet([m EXCEPT !.depth = @ + 1], Lit(ClampAt))
       IN  [r EXCEPT !.depth = m.depth]
  ELSE IF l \in Throwers /\ v # Undefined /\ ~IsObject(v) /\ v > ClampAt
  THEN Log([m EXCEPT !.threw = "listener"],
           Ev("throw", 0, l, Lit(0), v, m.depth))
  ELSE m

\* callback(current): the callback is handed the value current holds now
Invoke(m, l, how) ==
  RunListener(Log(m, Ev(how, 0, l, Lit(0), m.cur, m.depth)), l, m.cur)

\* mutant of Notify: the entries are visited last to first
NotifyReversed(m, i) ==
  IF m.threw # "" \/ i > Len(m.ls) THEN m
  ELSE LET j == Len(m.ls) + 1 - i
       IN  IF m.ls[j] = Hole THEN NotifyReversed(m, i + 1)
           ELSE NotifyReversed(Invoke(m, m.ls[j], "call"), i + 1)

\* mutant of Notify: each callback is invoked in a try/catch, so the round
\* goes on after a callback that throws
NotifyCatching(m, i) ==
  IF i > Len(m.ls) THEN m
  ELSE IF m.ls[i] = Hole THEN NotifyCatching(m, i + 1)
  ELSE NotifyCatching(Invoke(m, m.ls[i], "call"), i + 1)

\* mutant of Notify: const value = current before the forEach, and every
\* callback is handed that value
NotifySnapshot(m, i) ==
  IF m.threw # "" \/ i > Len(m.ls) THEN m
  ELSE IF m.ls[i] = Hole THEN NotifySnapshot(m, i + 1)
  ELSE LET S == {j \in DOMAIN m.trace : /\ m.trace[j].ev = "store"
                                        /\ m.trace[j].depth = m.depth}
           v == m.trace[CHOOSE j \in S : \A j2 \in S : j2 <= j].v
       IN  NotifySnapshot(
             RunListener(Log(m, Ev("call", 0, m.ls[i], Lit(0), v, m.depth)),
                         m.ls[i], v),
             i + 1)

\* listeners.forEach(callback => callback(current)), from entry i on: entries
\* are visited in insertion order, vacated ones skipped, appended ones reached;
\* a callback that throws ends the round
Notify(m, i) ==
  IF m.threw # "" \/ i > Len(m.ls) THEN m
  ELSE IF m.ls[i] = Hole THEN Notify(m, i + 1)
  ELSE Notify(Invoke(m, m.ls[i], "call"), i + 1)

\* mutant of StateSet: the comparison next !== current is left out
StateSetAlwaysNotify(m, arg) ==
  LET next == Resolve(arg, m.cur)
      m1 == Log(m, Ev("enter", 0, 0, arg, next, m.depth))
  IN  Notify(Log([m1 EXCEPT !.cur = next],
                 Ev("store", 0, 0, arg, next, m.depth)), 1)

\* state().set
StateSet(m, arg) ==
  LET next == Resolve(arg, m.cur)
      m1 == Log(m, Ev("enter", 0, 0, arg, next, m.depth))
  IN  IF next # m.cur
      THEN Notify(Log([m1 EXCEPT !.cur = next],
                      Ev("store", 0, 0, arg, next, m.depth)), 1)
      ELSE m1

\* mutant of StateSubscribe: the callback is registered and not replayed to
StateSubscribeNoReplay(m, l) == [m EXCEPT !.ls = SetAdd(@, l)]

\* state().subscribe, up to the return of the unsubscribe function
StateSubscribe(m, l) == Invoke([m EXCEPT !.ls = SetAdd(@, l)], l, "replay")

\* mutant of StateUnsubscribe: the callback stays registered
StateUnsubscribeKeeps(m, l) == m

\* the function state().subscribe returns
StateUnsubscribe(m, l) == [m EXCEPT !.ls = SetDelete(@, l)]

\* mutant of TopUnsubscribe: the handlers stay registered
TopUnsubscribeKeepsHandler(m, l) == StateUnsubscribe(m, l)

\* the function the subscribe of the composed container returns: every
\* withUrlParams/withHashParams layer wraps the one of the container below,
\* () => { unsub(); window.removeEventListener(..., handler) }
TopUnsubscribe(m, l) ==
  [StateUnsubscribe(m, l) EXCEPT !.attached = [k \in DOMAIN @ |-> FALSE]]

\* mutant of WithValidationSet: the candidate is written through before the
\* result of the validation is looked at
WithValidationSetStoreFirst(k, m, arg) ==
  LET next == Resolve(arg, StateGet(m))
      result == Validate(next)
      m1 == Log(m, Ev("enter", k, 0, arg, next, m.depth))
      m2 == SetAt(k - 1, m1, Lit(next))
  IN  IF ~result.ok /\ m2.threw = ""
      THEN Log([m2 EXCEPT !.threw = "validation", !.issues = result.issues],
               Ev("throw", k, 0, arg, next, m.depth))
      ELSE m2

\* mutant of WithValidationSet: a rejected write is dropped without an error
WithValidationSetSilent(k, m, arg) ==
  LET next == Resolve(arg, StateGet(m))
      result == Validate(next)
      m1 == Log(m, Ev("enter", k, 0, arg, next, m.depth))
  IN  IF ~result.ok THEN m1 ELSE SetAt(k - 1, m1, Lit(result.value))

\* mutant of WithValidationSet: base.set(next), the raw candidate, is called
\* instead of base.set(result.value)
WithValidationSetRaw(k, m, arg) ==
  LET next == Resolve(arg, StateGet(m))
      result == Validate(next)
      m1 == Log(m, Ev("enter", k, 0, arg, next, m.depth))
  IN  IF ~result.ok
      THEN Log([m1 EXCEPT !.threw = "validation", !.issues = result.issues],
               Ev("throw", k, 0, arg, next, m.depth))
      ELSE SetAt(k - 1, m1, Lit(next))

\* mutant of WithValidationSet: only a literal is validated, an updater is
\* handed to base.set as it is
WithValidationSetLiteralsOnly(k, m, arg) ==
  LET next == Resolve(arg, StateGet(m))
      result == Validate(next)
      m1 == Log(m, Ev("enter", k, 0, arg, next, m.depth))
  IN  IF arg.k # "lit" THEN SetAt(k - 1, m1, arg)
      ELSE IF ~result.ok
      THEN Log([m1 EXCEPT !.threw = "validation", !.issues = result.issues],
               Ev("throw", k, 0, arg, next, m.depth))
      ELSE SetAt(k - 1, m1, Lit(result.value))

\* withValidation(schema)(base).set, for the layer at position k
WithValidationSet(k, m, arg) ==
  LET next == Resolve(arg, StateGet(m))
      result == Validate(next)
      m1 == Log(m, Ev("enter", k, 0, arg, next, m.depth))
  IN  IF ~result.ok
      THEN Log([m1 EXCEPT !.threw = "validation", !.issues = result.issues],
               Ev("throw", k, 0, arg, next, m.depth))
      ELSE SetAt(k - 1, m1, Lit(result.value))

\* mutant of WithDebounceSet: an updater is called when set is called, and
\* its result is what the timeout writes
WithDebounceSetResolves(k, m, arg) ==
  Log([m EXCEPT !.timers[k] = Pending(Lit(Resolve(arg, StateGet(m))))],
      Ev("enter", k, 0, arg, 0, m.depth))

\* mutant of WithDebounceSet: the write is forwarded at once, not on a timer
WithDebounceSetImmediate(k, m, arg) ==
  SetAt(k - 1, Log(m, Ev("enter", k, 0, arg, 0, m.depth)), arg)

\* mutant of WithDebounceSet: a pending timeout is not cleared, and the call
\* that finds one pending is dropped
WithDebounceSetKeepsFirst(k, m, arg) ==
  Log(IF m.timers[k].pending THEN m ELSE [m EXCEPT !.timers[k] = Pending(arg)],
      Ev("enter", k, 0, arg, 0, m.depth))

\* withDebounce(ms)(base).set, for the layer at position k
WithDebounceSet(k, m, arg) ==
  Log([m EXCEPT !.timers[k] = Pending(arg)],
      Ev("enter", k, 0, arg, 0, m.depth))

\* mutant of SetAt: the layers spread the container below them after their
\* own set ({set() {...}, ...base}), so the set of the base container wins
SetAtBaseWins(k, m, arg) == StateSet(m, arg)

\* the set of the container made of the base and the layers 1..k: each layer
\* spreads the container below it ({...base}) and overrides set or not
SetAt(k, m, arg) ==
  IF k = 0 THEN StateSet(m, arg)
  ELSE IF stack[k] = "validation" THEN WithValidationSet(k, m, arg)
  ELSE IF stack[k] = "debounce" THEN WithDebounceSet(k, m, arg)
  ELSE SetAt(k - 1, m, arg)

\* the subscribe of the composed container: no layer overrides it
TopSubscribe(m, l) == StateSubscribe(m, l)

----------------------------------------------------------------------------
(* compose and enhance *)

\* a container is named by the layers wrapped around the base, innermost first
BaseContainer == <<>>

\* enhancer(current)
ApplyEnhancer(e, c) == Append(c, e)

RECURSIVE ReduceRight(_, _)
\* mutant of Reduce: Array.prototype.reduceRight, the last enhancer innermost
ReduceRight(es, acc) ==
  IF es = <<>> THEN acc
  ELSE ReduceRight(SubSeq(es, 1, Len(es) - 1), ApplyEnhancer(es[Len(es)], acc))

RECURSIVE Reduce(_, _)
\* Array.prototype.reduce with (current, enhancer) => enhancer(current)
Reduce(es, acc) ==
  IF es = <<>> THEN acc ELSE Reduce(Tail(es), ApplyEnhancer(Head(es), acc))

Compose(base, es) == Reduce(es, base)

\* enhance(...enhancers) returns base => compose(base, ...enhancers)
Enhance(es) == [base \in {BaseContainer} |-> Compose(base, es)]

RECURSIVE SeqsUpTo(_, _)
\* the sequences of at most n enhancers of S, each declared at most once
SeqsUpTo(S, n) ==
  IF n = 0 THEN {<<>>}
  ELSE LET shorter == SeqsUpTo(S, n - 1)
       IN  shorter \cup
           UNION {{Append(s, x) : x \in S \ SeqToSet(s)} : s \in shorter}

EnhancerSeqs == SeqsUpTo(Enhancers, MaxStack)

EffectSeqs == {<<e>> : e \in EffectEnhancers}

EffectLayers ==
  {k \in DOMAIN stack : stack[k] \in EffectEnhancers \cup ReentrantEffects}

\* withEffect(effect, options)(base), for the layer at position k
WithEffectInit(k, m) ==
  LET m0 == [m EXCEPT !.previous[k] = StateGet(m)]
      prev == m0.previous[k]
      m1 == IF stack[k] = "effectNow"
            THEN LET m2 == Log(m0, Ev("effect", k, 0, Lit(prev), prev, m0.depth))
                 IN  IF EffectThrows(stack[k], prev, prev)
                     THEN Log([m2 EXCEPT !.threw = "effect"],
                              Ev("throw", k, 0, Lit(prev), prev, m0.depth))
                     ELSE m2
            ELSE m0
  IN  IF m1.threw # "" THEN m1
      ELSE StateSubscribe(m1, EffectListener(k))

SyncSeqs == {<<e>> : e \in SyncEnhancers}

SyncLayers == {k \in DOMAIN stack : stack[k] \in SyncEnhancers}

InboundSeqs == {<<e>> : e \in InboundEnhancers}

\* a sync enhancer declared after or before a validation gate or a debounce
LayeredSeqs ==
  {<<g, "url">> : g \in Enhancers} \cup {<<"url", g>> : g \in Enhancers}
    \cup {<<"validation", "storage">>}

InboundLayers == {k \in DOMAIN stack : stack[k] \in InboundEnhancers}

\* the query strings and hashes a navigation can bring
ExternalData == [a : {"", "2", "x"}, b : {"", "1"}]

\* state(initial): a number, or an object for a container that is synced
InitialValues ==
  IF SyncLayers = {} THEN 0 .. MaxVal ELSE {Obj(0, fs) : fs \in FieldRecs}

\* what the address bar and the storage hold when the container is composed;
\* without a window there is neither
InitialSurfaces ==
  IF window
  THEN {s \in [SyncLayers -> UNION {SurfacesOf(e) : e \in SyncEnhancers}] :
          \A k \in SyncLayers : s[k] \in SurfacesOf(stack[k])}
  ELSE {[k \in SyncLayers |-> Surface("none", NoData)]}

\* the references a running call can compare a new object with
LiveRefs(m) ==
  (IF IsObject(m.cur) THEN {RefOf(m.cur)} ELSE {})
    \cup {RefOf(m.timers[k].arg.v) :
            k \in {j \in DOMAIN m.timers : /\ m.timers[j].pending
                                           /\ m.timers[j].arg.k = "lit"
                                           /\ IsObject(m.timers[j].arg.v)}}
    \cup {RefOf(m.previous[k]) :
            k \in {j \in DOMAIN m.previous : IsObject(m.previous[j])}}

\* an object literal evaluates to an object identical to no other
FreshRef(m) ==
  LET free == Refs \ LiveRefs(m)
  IN  CHOOSE r \in free : \A q \in free : r <= q

\* mutant of Hydrate: the merge is written with the set of the composed
\* container
HydrateThroughTop(k, m) ==
  LET data == Data(m.surface[k])
      decoded == Decode(data)
      m1 == Log(m, Ev("decode", k, 0, data, StateGet(m), m.depth))
      merged == Obj(FreshRef(m), Merge(Fields(StateGet(m)), decoded))
  IN  TopSet(m1, Lit(merged))

\* the sync layer k reads its surface and merges what it decodes:
\* base.set({ ...base.get(), ...decoded })
Hydrate(k, m) ==
  LET data == Data(m.surface[k])
      decoded == Decode(data)
      m1 == Log(m, Ev("decode", k, 0, data, StateGet(m), m.depth))
      merged == Obj(FreshRef(m), Merge(Fields(StateGet(m)), decoded))
  IN  SetAt(k - 1, m1, Lit(merged))

\* mutant of WithSyncInit: the test typeof window === 'undefined' is left out
WithSyncInitIgnoresWindow(k, m) ==
  LET m1 == IF stack[k] = "storage"
            THEN IF m.surface[k].status = "ok"
                 THEN [Hydrate(k, m) EXCEPT !.threw = "", !.issues = <<>>]
                 ELSE m
            ELSE Hydrate(k, m)
      m2 == IF m1.threw # "" THEN m1
            ELSE StateSubscribe(m1, SyncListener(k))
  IN  IF m2.threw # "" \/ stack[k] \notin InboundEnhancers THEN m2
      ELSE [m2 EXCEPT !.attached[k] = TRUE]

\* withUrlParams(codec)(base), withHashParams(codec)(base) and
\* withStorage(key, codec)(base), for the layer at position k: hydration,
\* the subscription of the outbound callback, and the registration of the
\* popstate/hashchange handler.  withStorage hydrates inside a try/catch and
\* only from a record that is there and parses
WithSyncInit(k, m) ==
  IF ~window THEN m
  ELSE LET m1 == IF stack[k] = "storage"
                 THEN IF m.surface[k].status = "ok"
                      THEN [Hydrate(k, m) EXCEPT !.threw = "", !.issues = <<>>]
                      ELSE m
                 ELSE Hydrate(k, m)
           m2 == IF m1.threw # "" THEN m1
                 ELSE StateSubscribe(m1, SyncListener(k))
       IN  IF m2.threw # "" \/ stack[k] \notin InboundEnhancers THEN m2
           ELSE [m2 EXCEPT !.attached[k] = TRUE]

\* the hydration of withStorage(key, numberCodec()): decoded is a number, and
\* { ...base.get(), ...decoded } is a new object with the fields of the value
\* held and no field from the number
HydrateNumber(k, m) ==
  LET data == Data(m.surface[k])
      m1 == Log(m, Ev("decode", k, 0, data, StateGet(m), m.depth))
      decoded == CHOOSE n \in 0 .. MaxVal : NumberRecord(n) = m.surface[k]
      merged == Obj(FreshRef(m), Merge(Fields(StateGet(m)), Fields(decoded)))
  IN  SetAt(k - 1, m1, Lit(merged))

\* withStorage(key, numberCodec())(base): hydrate in try/catch when a record
\* is stored, then subscribe the persist callback
WithNumberStorageInit(k, m) ==
  LET m1 == IF m.surface[k] \in NumberRecords
            THEN [HydrateNumber(k, m) EXCEPT !.threw = "", !.issues = <<>>]
            ELSE m
  IN  StateSubscribe(m1, SyncListener(k))

\* enhancer(current), the body of the enhancer at position k
EnhancerInit(k, m) ==
  IF stack[k] \in EffectEnhancers \cup ReentrantEffects
  THEN WithEffectInit(k, m)
  ELSE IF stack[k] \in SyncEnhancers THEN WithSyncInit(k, m)
  ELSE IF stack[k] = NumberStorage THEN WithNumberStorageInit(k, m)
  ELSE m

RECURSIVE Construct(_, _)
\* the enhancers' bodies run in the order reduce applies them
Construct(k, m) ==
  IF k > Len(stack) \/ m.threw # "" THEN m
  ELSE Construct(k + 1, EnhancerInit(k, m))

----------------------------------------------------------------------------
(* Actions *)

Op(kind, arg, l, layer, again, m) ==
  [kind |-> kind, arg |-> arg, l |-> l, layer |-> layer, again |-> again,
   pre |-> current, prels |-> listeners,
   threw |-> m.threw, issues |-> m.issues]

Commit(m) ==
  /\ current' = m.cur
  /\ listeners' = Compact(m.ls)
  /\ timers' = m.timers
  /\ previous' = m.previous
  /\ surface' = m.surface
  /\ attached' = m.attached
  /\ trace' = m.trace
  /\ UNCHANGED <<stack, decl, window, other>>

\* state(initial) and then the enhancers applied by compose, innermost first:
\* what their bodies do at composition is part of the construction
InitContainer(seqs) ==
  /\ decl \in seqs
  /\ stack \in {Compose(BaseContainer, decl), Enhance(decl)[BaseContainer]}
  /\ unsubs = {}
  /\ window \in (IF SyncLayers = {} THEN {TRUE} ELSE BOOLEAN)
  /\ \E initial \in InitialValues, external \in InitialSurfaces :
       LET m == Construct(1, [cur |-> initial, ls |-> <<>>,
                              timers |-> [k \in 1 .. Len(stack) |-> NoTimer],
                              previous |-> [k \in EffectLayers |-> Undefined],
                              surface |-> external,
                              attached |-> [k \in InboundLayers |-> FALSE],
                              fails |-> FALSE,
                              trace |-> <<>>, threw |-> "", issues |-> <<>>,
                              depth |-> 0])
       IN  /\ current = m.cur
           /\ listeners = Compact(m.ls)
           /\ timers = m.timers
           /\ previous = m.previous
           /\ surface = m.surface
           /\ attached = m.attached
           /\ trace = m.trace
           /\ op = [kind |-> "init", arg |-> Lit(0), l |-> 0, layer |-> 0,
                    again |-> FALSE, pre |-> initial, prels |-> <<>>,
                    threw |-> m.threw, issues |-> m.issues]

\* no second container
NoOther == [composed |-> FALSE, cur |-> 0]

\* one container
InitWith(seqs) == InitContainer(seqs) /\ other = NoOther

\* what callers pass to set: numbers and updaters of numbers, or, on a synced
\* container, the object held or an object literal
CallArgs ==
  IF SyncLayers = {}
  THEN IF IsObject(current) THEN {Lit(v) : v \in Values} ELSE Args
  ELSE {Lit(current)} \cup {Lit(Obj(FreshRef(Machine), fs)) : fs \in FieldRecs}

\* compose has returned a container: no enhancer body threw
Composed == ~(op.kind = "init" /\ op.threw # "")

\* container.set(arg)
SetCall ==
  \E arg \in CallArgs :
    LET m == TopSet(Machine, arg)
    IN  /\ Composed
        /\ Commit(m)
        /\ op' = Op("set", arg, 0, Len(stack), FALSE, m)
        /\ UNCHANGED unsubs

\* base.set(arg) by a caller that kept the base container it composed:
\* const base = state(v); const c = compose(base, ...)
BaseSetCall ==
  \E arg \in CallArgs :
    LET m == SetAt(0, Machine, arg)
    IN  /\ Composed
        /\ Commit(m)
        /\ op' = Op("baseset", arg, 0, 0, FALSE, m)
        /\ UNCHANGED unsubs

\* container.set(arg) at a time when codec.encode or the write to the surface
\* throws (quota exceeded, a value that cannot be serialized, a refused
\* history.replaceState)
SetCallFailing ==
  \E arg \in CallArgs :
    LET m == TopSet([Machine EXCEPT !.fails = TRUE], arg)
    IN  /\ window /\ Composed
        /\ Commit(m)
        /\ op' = Op("set", arg, 0, Len(stack), FALSE, m)
        /\ UNCHANGED unsubs

\* container.subscribe(l): no unsubscribe function is returned when the
\* replay throws
Subscribe ==
  \E l \in Listeners :
    LET m == TopSubscribe(Machine, l)
    IN  /\ Composed
        /\ Commit(m)
        /\ op' = Op("subscribe", Lit(0), l, Len(stack), FALSE, m)
        /\ unsubs' = IF m.threw = ""
                     THEN unsubs \cup {[cb |-> l, called |-> FALSE]}
                     ELSE unsubs

\* container.subscribe(l) for a callback l that throws on some values; the
\* callback is registered before it is replayed to
SubscribeThrower ==
  \E l \in Throwers :
    LET m == TopSubscribe(Machine, l)
    IN  /\ Composed
        /\ Commit(m)
        /\ op' = Op("subscribe", Lit(0), l, Len(stack), FALSE, m)
        /\ unsubs' = IF m.threw = ""
                     THEN unsubs \cup {[cb |-> l, called |-> FALSE]}
                     ELSE unsubs

\* a call of an unsubscribe function returned earlier.  unsubs keeps one
\* entry per callback and per "has been called": every such function closes
\* over the callback alone and runs listeners.delete(callback), so functions
\* of the same callback differ only in whether they were called before
Unsubscribe ==
  \E h \in unsubs :
    LET m == TopUnsubscribe(Machine, h.cb)
    IN  /\ Commit(m)
        /\ op' = Op("unsubscribe", Lit(0), h.cb, Len(stack), h.called, m)
        /\ unsubs' = (unsubs \ {h}) \cup {[cb |-> h.cb, called |-> TRUE]}

\* mutant of TimerFire: the callback runs on an interval, so the write stays
\* scheduled after it has run
TimerFireStaysPending ==
  \E k \in 1 .. Len(stack) :
    /\ timers[k].pending
    /\ \E m \in {SetAt(k - 1, Machine, timers[k].arg)} :
         /\ Commit(m)
         /\ op' = Op("timer", timers[k].arg, 0, k, FALSE, m)
         /\ UNCHANGED unsubs

\* the timeout of the debounce layer k fires: base.set(valueOrUpdater)
TimerFire ==
  \E k \in 1 .. Len(stack) :
    /\ timers[k].pending
    /\ \E m \in {SetAt(k - 1, [Machine EXCEPT !.timers[k] = NoTimer],
                        timers[k].arg)} :
         /\ Commit(m)
         /\ op' = Op("timer", timers[k].arg, 0, k, FALSE, m)
         /\ UNCHANGED unsubs

\* the address bar of the layer k changes (back/forward, a new hash) and the
\* window dispatches popstate/hashchange: the handler, when it is registered,
\* decodes and merges as the hydration does
External ==
  \E k \in InboundLayers, data \in ExternalData :
    /\ window
    /\ LET m0 == [Machine EXCEPT !.surface[k] = Surface("ok", data)]
           m == IF attached[k] THEN Hydrate(k, m0) ELSE m0
       IN  /\ Commit(m)
           /\ op' = Op("external", Lit(0), 0, k, FALSE, m)
           /\ UNCHANGED unsubs

\* the last call assigned a new fragment to window.location.hash at the layer
\* k: the window has a hashchange event to dispatch
HashChangePending(k) ==
  \E i \in DOMAIN trace : /\ trace[i].ev = "write" /\ trace[i].layer = k
                           /\ trace[i].arg = Lit(1)

\* the window dispatches the hashchange event of a fragment the outbound
\* callback of the layer k has written: handleHashChange, when it is
\* registered, decodes the hash and merges
HashChange ==
  \E k \in InboundLayers :
    /\ stack[k] = "hash" /\ window
    /\ HashChangePending(k)
    /\ \E m \in {IF attached[k] THEN Hydrate(k, Machine) ELSE Machine} :
         /\ Commit(m)
         /\ op' = Op("hashchange", Lit(0), 0, k, FALSE, m)
         /\ UNCHANGED unsubs

\* the stacks given to two base containers: withStorage has one key, so the
\* two containers read and write one record
PairSeqs == {<<"validation">>, <<"debounce">>, <<"effect">>, <<"storage">>}

\* a second base container state(v) that no enhancer has been applied to yet
Uncomposed(v) == [composed |-> FALSE, cur |-> v]

\* mutant of Closure: let timeout, let previous are declared in
\* withDebounce(ms) and withEffect(effect), outside (base) => ..., so every
\* container the enhancer is applied to uses the same variable
ClosureHoisted(own, shared) == shared

\* let timeout, let previous are declared in the body of (base) => ...: each
\* application of the enhancer has its own
Closure(own, shared) == own

\* enhancer(...enhancer(other)), the stack applied to the second container
\* with the window and the storage as they are now
ComposeOther ==
  Construct(1, [cur |-> other.cur, ls |-> <<>>,
                timers |-> Closure([k \in 1 .. Len(stack) |-> NoTimer],
                                   timers),
                previous |-> Closure([k \in EffectLayers |-> Undefined],
                                     previous),
                surface |-> surface, attached |-> attached, fails |-> FALSE,
                trace |-> <<>>, threw |-> "", issues |-> <<>>, depth |-> 0])

\* the caller turns to the other container: it is composed if it was not,
\* and the container the calls were made on is set aside as it is
Switch ==
  /\ other # NoOther
  /\ IF other.composed
     THEN /\ current' = other.cur
          /\ listeners' = other.ls
          /\ timers' = Closure(other.timers, timers)
          /\ previous' = Closure(other.previous, previous)
          /\ trace' = <<>>
          /\ op' = [Op("switch", Lit(0), 0, 0, FALSE, Machine)
                      EXCEPT !.pre = other.cur, !.prels = other.ls]
          /\ UNCHANGED <<surface, attached>>
     ELSE LET m == ComposeOther
          IN  /\ current' = m.cur
              /\ listeners' = Compact(m.ls)
              /\ timers' = m.timers
              /\ previous' = m.previous
              /\ surface' = m.surface
              /\ attached' = m.attached
              /\ trace' = m.trace
              /\ op' = [Op("init", Lit(0), 0, 0, FALSE, m)
                          EXCEPT !.pre = other.cur, !.prels = <<>>]
  /\ other' = [composed |-> TRUE, cur |-> current, ls |-> listeners,
               timers |-> timers, previous |-> previous]
  /\ UNCHANGED <<stack, decl, window, unsubs>>

\* the base container alone
Init == InitWith({<<>>})
Next == SetCall \/ Subscribe \/ Unsubscribe
Spec == Init /\ [][Next]_vars

\* the base container with callbacks that throw among its listeners
InitThrow == InitWith({<<>>})
NextThrow == SetCall \/ Subscribe \/ SubscribeThrower \/ Unsubscribe
SpecThrow == InitThrow /\ [][NextThrow]_vars

\* containers composed with withEffect, for effects that return, that throw
\* and that write to the container
ReenterSeqs == {<<"effect">>, <<"effectStrict">>, <<"effectClamp">>}
InitReenter == InitWith(ReenterSeqs)
NextReenter == SetCall \/ Subscribe
SpecReenter == InitReenter /\ [][NextReenter]_vars

\* a container composed with withDebounce whose base container is also
\* written to directly
InitDebounce == InitWith({<<"debounce">>})
NextDebounce == SetCall \/ BaseSetCall \/ TimerFire \/ Subscribe
SpecDebounce == InitDebounce /\ [][NextDebounce]_vars

\* the calls made on the composed container alone, with every timeout that
\* stays scheduled firing in the end
NextDebounceFair == SetCall \/ TimerFire \/ Subscribe

SpecDebounceFair ==
  InitDebounce /\ [][NextDebounceFair]_vars /\ WF_vars(TimerFire)

\* containers composed with withValidation and withDebounce
InitStack == InitWith(EnhancerSeqs)
NextStack == SetCall \/ Subscribe \/ Unsubscribe \/ TimerFire
SpecStack == InitStack /\ [][NextStack]_vars

\* containers composed with withEffect
InitEffect == InitWith(EffectSeqs)
NextEffect == SetCall \/ Subscribe \/ Unsubscribe
SpecEffect == InitEffect /\ [][NextEffect]_vars

\* containers composed with an external sync enhancer
InitSync == InitWith(SyncSeqs)
NextSync == SetCall \/ Subscribe \/ Unsubscribe
SpecSync == InitSync /\ [][NextSync]_vars

\* containers composed with an external sync enhancer whose writes can fail
InitFail == InitWith(SyncSeqs)
NextFail == SetCall \/ SetCallFailing \/ Subscribe
SpecFail == InitFail /\ [][NextFail]_vars

\* two base containers given the same stack, enh(state(v)) and enh(state(w))
\* for enh = enhance(...); the calls are made on one of them until the caller
\* turns to the other
InitPair ==
  /\ InitContainer(PairSeqs)
  /\ window = TRUE
  /\ other \in {Uncomposed(v) : v \in InitialValues}
NextPair == SetCall \/ TimerFire \/ Switch
SpecPair == InitPair /\ [][NextPair]_vars

\* the counter of examples/basic.ts: state(n) composed with
\* withStorage('counter', numberCodec()), then with or without withEffect
CounterSeqs == {<<NumberStorage>>, <<NumberStorage, "effect">>}

CounterLayers == {k \in DOMAIN stack : stack[k] = NumberStorage}

InitCounter ==
  /\ decl \in CounterSeqs
  /\ stack \in {Compose(BaseContainer, decl), Enhance(decl)[BaseContainer]}
  /\ unsubs = {}
  /\ window = TRUE
  /\ \E initial \in 0 .. MaxVal,
        stored \in {Surface("none", NoData)} \cup NumberRecords :
       LET m == Construct(1, [cur |-> initial, ls |-> <<>>,
                              timers |-> [k \in 1 .. Len(stack) |-> NoTimer],
                              previous |-> [k \in EffectLayers |-> Undefined],
                              surface |-> [k \in CounterLayers |-> stored],
                              attached |-> [k \in InboundLayers |-> FALSE],
                              fails |-> FALSE,
                              trace |-> <<>>, threw |-> "", issues |-> <<>>,
                              depth |-> 0])
       IN  /\ current = m.cur
           /\ listeners = Compact(m.ls)
           /\ timers = m.timers
           /\ previous = m.previous
           /\ surface = m.surface
           /\ attached = m.attached
           /\ trace = m.trace
           /\ op = [kind |-> "init", arg |-> Lit(0), l |-> 0, layer |-> 0,
                    again |-> FALSE, pre |-> initial, prels |-> <<>>,
                    threw |-> m.threw, issues |-> m.issues]
  /\ other = NoOther

NextCounter == SetCall \/ Subscribe
SpecCounter == InitCounter /\ [][NextCounter]_vars

\* containers composed with a sync enhancer and a validation gate or a
\* debounce, with the window events and the timers
InitLayered == InitWith(LayeredSeqs)
NextLayered == SetCall \/ External \/ TimerFire
SpecLayered == InitLayered /\ [][NextLayered]_vars

\* a container composed with withHashParams: the calls, the navigations and
\* the hashchange events of the fragments the container writes
InitHash == InitWith({<<"hash">>})
NextHash == SetCall \/ Subscribe \/ Unsubscribe \/ External \/ HashChange
SpecHash == InitHash /\ [][NextHash]_vars

\* containers composed with two sync enhancers, withUrlParams and withStorage
\* in either order
TwoSyncSeqs == {<<"url", "storage">>, <<"storage", "url">>}

\* the values the container is declared with, and what the query string
\* and the storage record hold when the enhancers are applied: any of the
\* fields a and b, or no record
TwoSyncInitials == {Obj(0, fs) : fs \in [a : FieldVals, b : {Absent}]}

TwoSyncSurfaces(e) ==
  {s \in SurfacesOf(e) : /\ s.status # "bad"
                         /\ s.a \in {"", "1", "2"} /\ s.b \in {"", "1"}}

InitTwoSync ==
  /\ decl \in TwoSyncSeqs
  /\ stack \in {Compose(BaseContainer, decl), Enhance(decl)[BaseContainer]}
  /\ unsubs = {}
  /\ window = TRUE
  /\ \E initial \in TwoSyncInitials,
        s1 \in TwoSyncSurfaces(stack[1]), s2 \in TwoSyncSurfaces(stack[2]) :
       LET m == Construct(1, [cur |-> initial, ls |-> <<>>,
                              timers |-> [k \in 1 .. Len(stack) |-> NoTimer],
                              previous |-> [k \in EffectLayers |-> Undefined],
                              surface |-> <<s1, s2>>,
                              attached |-> [k \in InboundLayers |-> FALSE],
                              fails |-> FALSE,
                              trace |-> <<>>, threw |-> "", issues |-> <<>>,
                              depth |-> 0])
       IN  /\ current = m.cur
           /\ listeners = Compact(m.ls)
           /\ timers = m.timers
           /\ previous = m.previous
           /\ surface = m.surface
           /\ attached = m.attached
           /\ trace = m.trace
           /\ op = [kind |-> "init", arg |-> Lit(0), l |-> 0, layer |-> 0,
                    again |-> FALSE, pre |-> initial, prels |-> <<>>,
                    threw |-> m.threw, issues |-> m.issues]
  /\ other = NoOther
NextTwoSync == SetCall \/ External
SpecTwoSync == InitTwoSync /\ [][NextTwoSync]_vars

\* containers composed with withUrlParams or withHashParams, and the window
\* events
InitInbound == InitWith(InboundSeqs)
NextInbound == SetCall \/ Subscribe \/ Unsubscribe \/ External
SpecInbound == InitInbound /\ [][NextInbound]_vars

----------------------------------------------------------------------------
(* Reading the trace of the call just made *)

Idx == DOMAIN trace

IsCall(e) == e.ev \in {"call", "replay"}

\* the value current held just before the event at index i
ValueBefore(i) ==
  LET earlier == {j \in Idx : j < i /\ trace[j].ev = "store"}
  IN  IF earlier = {} THEN op.pre
      ELSE trace[CHOOSE j \in earlier : \A j2 \in earlier : j2 <= j].v

\* the events of the notification round of the set entered at index i: the
\* listener invocations made by that very call, not by a set nested in it
RoundOf(i) ==
  {j \in Idx : /\ j > i
               /\ trace[j].ev = "call"
               /\ trace[j].depth = trace[i].depth
               /\ \A j2 \in Idx : (i < j2 /\ j2 < j /\ trace[j2].ev = "enter")
                                    => trace[j2].depth > trace[i].depth}

\* the indices of a set of events, in trace order
RECURSIVE Ordered(_)
Ordered(S) ==
  IF S = {} THEN <<>>
  ELSE LET lo == CHOOSE j \in S : \A j2 \in S : j <= j2
       IN  <<lo>> \o Ordered(S \ {lo})

RoundListeners(i) ==
  LET o == Ordered(RoundOf(i)) IN [n \in DOMAIN o |-> trace[o[n]].l]

\* some set was called from inside a listener before the event at index i
ReenteredBefore(i) == \E j \in Idx : j < i /\ trace[j].depth > 0

Reentered == \E j \in Idx : trace[j].depth > 0

\* the listeners registered while the sets of the call ran: subscribe adds its
\* callback before it replays, and no callback here subscribes or unsubscribes
Registered == listeners

BaseEnters == {i \in Idx : trace[i].ev = "enter" /\ trace[i].layer = 0}

NumCalls(l) == Cardinality({i \in Idx : IsCall(trace[i]) /\ trace[i].l = l})

NumStores == Cardinality({i \in Idx : trace[i].ev = "store"})

----------------------------------------------------------------------------
(* Claims about the base container, checked under Spec *)

\* C1: a set on the base container whose computed next value is identical to
\* the current value stores nothing and invokes no listener; a set whose
\* computed value differs stores it and starts a notification round.  This is
\* stated of every call of state().set, the re-entrant ones included: the
\* event after the entry is the store of the computed value iff it differs
\* from the value held, and listeners are invoked iff a value was stored.
C1_IdentityNoOp ==
  /\ \A i \in BaseEnters :
       LET e == trace[i]
       IN  IF e.v = ValueBefore(i)
           THEN /\ RoundOf(i) = {}
                /\ (i + 1 \in Idx => /\ trace[i + 1].ev # "store"
                                     /\ trace[i + 1].depth < e.depth)
           ELSE /\ i + 1 \in Idx
                /\ trace[i + 1] = Ev("store", 0, 0, e.arg, e.v, e.depth)
                /\ RoundListeners(i) = Registered
  /\ op.kind = "set" =>
       /\ trace[1].v = Resolve(op.arg, op.pre)
       /\ (Resolve(op.arg, op.pre) = op.pre) =>
             (current = op.pre /\ Len(trace) = 1)
       /\ (\E i \in Idx : trace[i].ev = "call") <=>
             (Resolve(op.arg, op.pre) # op.pre /\ op.prels # <<>>)

\* C1 witness: a set with an updater that computes the value already held,
\* made while a listener is registered
C1_Witness ==
  /\ op.kind = "set" /\ op.arg = Upd("same")
  /\ op.prels # <<>> /\ current = op.pre /\ Len(trace) = 1

C3_ReplayOnSubscribe ==
  op.kind = "subscribe" =>
    /\ trace # <<>>
    /\ trace[1] = Ev("replay", 0, op.l, Lit(0), op.pre, 0)
    /\ Cardinality({i \in Idx : trace[i].ev = "replay"}) = 1
    /\ op.l \in SeqToSet(listeners)
    /\ ~Reentered => (Len(trace) = 1 /\ NumCalls(op.l) = 1 /\ current = op.pre)

\* C3 witness: a subscribe on a composed container whose debounce layer has
\* a write pending; the callback is replayed the value still held
C3_Witness ==
  /\ op.kind = "subscribe" /\ stack # <<>>
  /\ \E k \in DOMAIN timers : timers[k].pending /\ timers[k].arg = Lit(5)
  /\ trace = <<Ev("replay", 0, op.l, Lit(0), current, 0)>>

\* C4: a call of an unsubscribe function leaves its callback unregistered,
\* and a callback that is not registered stays so and is invoked by no later
\* call (set or timer) until it is subscribed again
C4_NoCallAfterUnsubscribe ==
  [][ /\ op'.kind = "unsubscribe" => op'.l \notin SeqToSet(listeners')
      /\ \A l \in Listeners :
           (l \notin SeqToSet(listeners) /\ ~(op'.kind = "subscribe" /\ op'.l = l))
             => /\ l \notin SeqToSet(listeners')
                /\ \A i \in DOMAIN trace' :
                     ~(IsCall(trace'[i]) /\ trace'[i].l = l) ]_vars

\* C4 witness: a value-changing set notifies a registered listener while the
\* unsubscribe function of another callback has been called
C4_Witness ==
  /\ op.kind = "set" /\ NumStores > 0
  /\ \E i \in Idx : trace[i].ev = "call"
  /\ \E h \in unsubs : h.called /\ h.cb \notin SeqToSet(listeners)

\* C5 as claimed: a second or later call of the same unsubscribe function
\* changes neither the listener set nor the stored value, also when the same
\* callback was subscribed again in between
C5_Original ==
  (op.kind = "unsubscribe" /\ op.again) =>
    (listeners = op.prels /\ current = op.pre)

\* C6: on the base container set(v) with a literal makes get() return v and
\* set(f) with an updater makes get() return f of the value held before the
\* call; a listener that calls set during the notification overwrites it,
\* and get() then returns what that later set stored
C6_SetStoresValueOrUpdaterResult ==
  op.kind = "set" =>
    LET expected ==
          IF op.arg.k = "lit" THEN op.arg.v
          ELSE IF op.arg.k = "inc"
               THEN IF op.pre # Undefined /\ op.pre < MaxVal
                    THEN op.pre + 1 ELSE op.pre
               ELSE op.pre
    IN  /\ trace[1] = Ev("enter", 0, 0, op.arg, expected, 0)
        /\ expected # op.pre => trace[2] = Ev("store", 0, 0, op.arg, expected, 0)
        /\ ~Reentered => StateGet(Machine) = expected
        /\ StateGet(Machine) = ValueBefore(Len(trace) + 1)

\* C6 witness: the value was 5 (as after state(0), set(5)) and
\* set(prev => prev + 1) made it 6
C6_Witness ==
  /\ op.kind = "set" /\ op.arg = Upd("inc") /\ op.pre = 5
  /\ current = 6

\* C7: the listener set holds each callback at most once, and a set invokes
\* each registered callback once for each value it stores
C7_NoDuplicateListeners ==
  /\ \A i, j \in DOMAIN listeners : i # j => listeners[i] # listeners[j]
  /\ op.kind = "set" =>
       \A l \in Listeners :
         NumCalls(l) = IF l \in SeqToSet(listeners) THEN NumStores ELSE 0

\* C7 witness: a callback that is registered already is subscribed again and
\* the listener set is as before
C7_Witness ==
  /\ op.kind = "subscribe" /\ op.l \in SeqToSet(op.prels)
  /\ listeners = op.prels /\ Len(listeners) = 2

\* C8 as claimed: the stored value is never undefined, whatever literal or
\* updater the set calls are given
C8_Original == current # Undefined

----------------------------------------------------------------------------
(* Claims about composition, checked under SpecStack *)

RECURSIVE Nested(_, _)
\* en(...e2(e1(base))), written out from the outermost application inwards
Nested(es, base) ==
  IF es = <<>> THEN base
  ELSE ApplyEnhancer(es[Len(es)], Nested(SubSeq(es, 1, Len(es) - 1), base))

\* C9: compose(base, e1, ..., en) is en(...e2(e1(base))), compose(base) is
\* base itself, and enhance(e1, ..., en)(base) is the same container as
\* compose(base, e1, ..., en), so the container in use, however it was built
\* from the declared enhancers, is the nested application and has one
\* private timer slot per layer
C9_ComposeLeftToRight ==
  /\ stack = Nested(decl, BaseContainer)
  /\ DOMAIN timers = DOMAIN stack
  /\ Compose(BaseContainer, <<>>) = BaseContainer
  /\ \A es \in EnhancerSeqs :
       /\ Compose(BaseContainer, es) = Nested(es, BaseContainer)
       /\ Enhance(es)[BaseContainer] = Compose(BaseContainer, es)

\* C9 witness: in compose(s, withDebounce, withValidation) a set is coerced
\* by the validation gate, the outer layer, and then parked by the debounce
\* layer; the other order would park the raw value
C9_Witness ==
  /\ decl = <<"debounce", "validation">> /\ stack = decl
  /\ op.kind = "set" /\ op.arg = Lit(MaxVal)
  /\ timers[1] = Pending(Lit(SchemaCap))

\* the layers that override set
Interceptors == {k \in DOMAIN stack : stack[k] \in {"validation", "debounce"}}

\* the position of layer k's enhancer in the compose call (0 for the base)
DeclPos(k) == IF k = 0 THEN 0 ELSE CHOOSE p \in DOMAIN decl : decl[p] = stack[k]

\* the write entering at index i was let through by interceptor j earlier in
\* the same call
PassedBefore(i, j) ==
  \E i2 \in Idx :
    /\ i2 < i
    /\ trace[i2].ev = "enter" /\ trace[i2].layer = j
    /\ trace[i2].depth = trace[i].depth
    /\ stack[j] = "validation" => Validate(trace[i2].v).ok

\* C10 as claimed: a layer that intercepts set sees only writes that passed
\* every interceptor declared earlier than it in the compose call
C10_Original ==
  \A i \in Idx :
    (trace[i].ev = "enter" /\ trace[i].layer \in Interceptors) =>
      \A j \in Interceptors :
        DeclPos(j) < DeclPos(trace[i].layer) => PassedBefore(i, j)

\* C10 amended: a set on the composed container enters at the interceptor
\* declared last, and a layer (interceptor or base) sees only writes that
\* passed every interceptor declared later than it; a debounce timer forwards
\* its write to the layers declared before its own layer only.  So in
\* compose(s, withValidation, withDebounce) the debounce layer receives every
\* write and the validation gate sees a write when the timer fires
C10_SeesWritesPastLaterInterceptors ==
  /\ \A i \in Idx :
       trace[i].ev = "enter" =>
         \A j \in Interceptors :
           ( /\ DeclPos(j) > DeclPos(trace[i].layer)
             /\ (op.kind = "timer" /\ trace[i].depth = 0)
                   => DeclPos(j) < DeclPos(op.layer) )
             => PassedBefore(i, j)
  /\ (op.kind = "set" /\ Interceptors # {}) =>
       /\ trace # <<>>
       /\ trace[1].ev = "enter" /\ trace[1].arg = op.arg
       /\ trace[1].layer \in Interceptors
       /\ \A j \in Interceptors : DeclPos(j) <= DeclPos(trace[1].layer)
  /\ op.kind = "timer" =>
       /\ stack[op.layer] = "debounce"
       /\ \A i \in Idx : (trace[i].ev = "enter" /\ trace[i].depth = 0)
                            => DeclPos(trace[i].layer) < DeclPos(op.layer)

\* C10 witness: in compose(s, withValidation, withDebounce) the debounce
\* layer took a write that the validation gate rejects once the timer fires
C10_Witness ==
  /\ decl = <<"validation", "debounce">>
  /\ op.kind = "timer" /\ op.layer = 2 /\ op.threw = "validation"
  /\ current = op.pre

----------------------------------------------------------------------------
(* Claims about withValidation and withDebounce, checked under SpecStack *)

\* the events at which a validation gate was handed a candidate it rejects
Rejections ==
  {i \in Idx : /\ trace[i].ev = "enter"
               /\ trace[i].layer \in DOMAIN stack
               /\ stack[trace[i].layer] = "validation"
               /\ ~Validate(trace[i].v).ok}

\* C11: a set through the validation gate whose candidate the validator
\* rejects writes nothing and notifies nobody (get() returns the value held
\* before the call, no listener runs, no layer below is entered), and the
\* call fails with an error that carries the validator's issues, at least one
C11_RejectedWriteChangesNothing ==
  \A i \in Rejections :
    /\ i + 1 \in Idx /\ trace[i + 1].ev = "throw"
    /\ trace[i + 1].layer = trace[i].layer
    /\ \A j \in Idx : j > i + 1 => trace[j].depth < trace[i].depth
    /\ \A j \in Idx : (j > i /\ trace[j].depth = 0) => trace[j].ev = "throw"
    /\ trace[i].depth = 0 =>
         /\ op.threw = "validation"
         /\ op.issues = Validate(trace[i].v).issues
         /\ Len(op.issues) >= 1
         /\ StateGet(Machine) = ValueBefore(i)
         /\ listeners = op.prels
         /\ \A j \in Idx : j > i => ~IsCall(trace[j]) /\ trace[j].ev # "store"
         /\ op.kind = "set" =>
              /\ StateGet(Machine) = op.pre
              /\ \A j \in Idx : ~IsCall(trace[j]) /\ trace[j].ev # "store"

\* C11 witness: set(0) on compose(s, withValidation) with a listener
\* registered is rejected; the value 2 held before is still there
C11_Witness ==
  /\ stack = <<"validation">> /\ op.kind = "set" /\ op.arg = Lit(0)
  /\ op.threw = "validation" /\ op.issues = <<"too_small">>
  /\ listeners # <<>> /\ current = 2 /\ op.pre = 2

\* the interceptor declared last, the one a set on the composed container
\* enters first (0 when no layer overrides set)
TopInterceptor ==
  IF Interceptors = {} THEN 0
  ELSE CHOOSE k \in Interceptors : \A j \in Interceptors : j <= k

\* C12 as claimed: on every stack that holds a validation gate the rejection
\* is raised by the set call on the composed container that carries the
\* rejected write, never by a later step
C12_Original ==
  op.threw = "validation" => op.kind = "set"

\* C12 amended: the rejection is raised synchronously by the set of the
\* validation gate.  The caller of set on the composed container gets it only
\* when no withDebounce is declared after the gate; with withDebounce declared
\* after withValidation, set returns normally and the rejection is raised
\* later, inside the timer callback of the debounce layer
C12_RejectionRaisedWhereGateRuns ==
  /\ \A i \in Rejections :
       trace[i].depth = 0 =>
         /\ op.threw = "validation"
         /\ op.kind = "set" =>
              \A j \in DOMAIN stack :
                j > trace[i].layer => stack[j] # "debounce"
         /\ op.kind = "timer" =>
              op.layer > trace[i].layer /\ stack[op.layer] = "debounce"
  /\ op.threw = "validation" =>
       /\ op.kind \in {"set", "timer"}
       /\ \E i \in Rejections : trace[i].depth = 0
  /\ (op.kind = "set" /\ TopInterceptor # 0) =>
       IF stack[TopInterceptor] = "debounce"
       THEN op.threw = ""
       ELSE (op.threw = "validation")
              <=> ~Validate(Resolve(op.arg, op.pre)).ok

\* C12 witness: on compose(s, withValidation, withDebounce) the timer fires
\* with the write set(0) left pending, and the gate rejects it there
C12_Witness ==
  /\ decl = <<"validation", "debounce">>
  /\ op.kind = "timer" /\ op.arg = Lit(0) /\ op.threw = "validation"
  /\ op.issues = <<"too_small">>

\* C13: the validation gate resolves an updater against the value the inner
\* container holds, validates the result, and hands the layer below the value
\* the validator returned, which is what is stored and delivered
C13_ForwardsValidatedValue ==
  \A i \in Idx :
    ( /\ trace[i].ev = "enter"
      /\ trace[i].layer \in DOMAIN stack
      /\ stack[trace[i].layer] = "validation" ) =>
      /\ trace[i].v = Resolve(trace[i].arg, ValueBefore(i))
      /\ Validate(trace[i].v).ok =>
           /\ i + 1 \in Idx
           /\ trace[i + 1].ev = "enter"
           /\ trace[i + 1].layer < trace[i].layer
           /\ trace[i + 1].arg = Lit(Validate(trace[i].v).value)
           /\ trace[i + 1].depth = trace[i].depth
           /\ trace[i + 1].layer = 0 =>
                /\ trace[i + 1].v = Validate(trace[i].v).value
                /\ \A j \in RoundOf(i + 1) :
                     ~ReenteredBefore(j) =>
                        trace[j].v = Validate(trace[i].v).value
                /\ ~Reentered => current = Validate(trace[i].v).value

\* C13 witness: set(MaxVal) on compose(s, withValidation) stores SchemaCap,
\* the coerced value, and the listener is handed SchemaCap
C13_Witness ==
  /\ stack = <<"validation">> /\ op.kind = "set" /\ op.arg = Lit(MaxVal)
  /\ current = SchemaCap /\ op.pre # SchemaCap
  /\ \E i \in Idx : trace[i].ev = "call" /\ trace[i].v = SchemaCap

DebounceLayers == {k \in DOMAIN stack : stack[k] = "debounce"}

\* the entries of layer k's set in the trace tr
EntersAt(tr, k) ==
  {i \in DOMAIN tr : tr[i].ev = "enter" /\ tr[i].layer = k}

MaxOf(S) == CHOOSE i \in S : \A j \in S : j <= i

\* the listener invocations the call itself made, not a set nested in it
OuterCalls(tr, l) ==
  {i \in DOMAIN tr : tr[i].ev = "call" /\ tr[i].depth = 0 /\ tr[i].l = l}

OuterStores(tr) == {i \in DOMAIN tr : tr[i].ev = "store" /\ tr[i].depth = 0}

\* C14 as claimed: when the debounce timer fires, the set calls of the window
\* have led to exactly one write and every subscriber is notified exactly
\* once, with the value of the last call
C14_Original ==
  (op.kind = "timer" /\ stack = <<"debounce">>) =>
    /\ Cardinality(OuterStores(trace)) = 1
    /\ \A l \in SeqToSet(listeners) :
         /\ Cardinality(OuterCalls(trace, l)) = 1
         /\ \A i \in OuterCalls(trace, l) : trace[i].v = Resolve(op.arg, op.pre)

\* C14 amended: a set on the debounce layer forwards nothing when it is
\* called and replaces whatever write was pending, so only the argument of
\* the last call is pending; when the timer fires that argument is handed to
\* the inner container in exactly one set call, and each subscriber is
\* notified at most once: once when that set changes the value, not at all
\* when the resulting value is identical to the one held or a layer beneath
\* rejects it
C14_CoalescesToLastWrite ==
  [][ /\ \A k \in DebounceLayers :
           LET E == EntersAt(trace', k)
           IN  /\ \A i \in E : i + 1 \in DOMAIN trace'
                                  => trace'[i + 1].depth < trace'[i].depth
               /\ E # {} => timers'[k] = Pending(trace'[MaxOf(E)].arg)
               /\ (E = {} /\ ~(op'.kind = "timer" /\ op'.layer = k))
                     => timers'[k] = timers[k]
      /\ op'.kind = "timer" =>
           LET k == op'.layer
               stores == OuterStores(trace')
           IN  /\ k \in DebounceLayers
               /\ timers[k] = Pending(op'.arg)
               /\ EntersAt(trace', k) = {} => timers'[k] = NoTimer
               /\ trace' # <<>>
               /\ trace'[1].ev = "enter" /\ trace'[1].arg = op'.arg
               /\ trace'[1].layer < k /\ trace'[1].depth = 0
               /\ \A j \in DOMAIN stack :
                    (trace'[1].layer < j /\ j < k) => j \notin Interceptors
               /\ Cardinality({i \in EntersAt(trace', trace'[1].layer) :
                                 trace'[i].depth = 0}) = 1
               /\ Cardinality(stores) <= 1
               /\ \A l \in SeqToSet(listeners') :
                    Cardinality(OuterCalls(trace', l)) = Cardinality(stores)
               /\ trace'[1].layer = 0 =>
                    /\ (stores # {}) <=> (Resolve(op'.arg, current) # current)
                    /\ \A i \in stores :
                         trace'[i].v = Resolve(op'.arg, current)
    ]_vars

\* C14 witness: the timer of compose(s, withDebounce) fires with set(5)
\* pending over the value 0, and the one subscriber is notified once
C14_Witness ==
  /\ stack = <<"debounce">> /\ op.kind = "timer" /\ op.arg = Lit(5)
  /\ op.pre = 0 /\ current = 5 /\ listeners = <<1>>
  /\ Cardinality(OuterCalls(trace, 1)) = 1 /\ ~timers[1].pending

\* C15: on a container with a debounce layer, nothing but the firing of the
\* timer changes what get() returns or notifies a subscriber: while a write
\* is pending get() returns the value from before the set call, and a
\* subscribe replays that value
C15_PendingWriteNotVisible ==
  [][ (DebounceLayers # {} /\ op'.kind # "timer") =>
        /\ current' = current
        /\ \A i \in DOMAIN trace' :
             /\ trace'[i].ev \notin {"store", "call"}
             /\ trace'[i].ev = "replay" => trace'[i].v = current
        /\ (op'.kind = "set" /\ op'.threw = "") =>
             \E k \in DebounceLayers :
               /\ timers'[k].pending
               /\ k = TopInterceptor =>
                    timers'[k] = Pending(op'.arg)
    ]_vars

\* C15 witness: set(2) on compose(s, withDebounce) with a subscriber leaves
\* the value 0 in place and the write pending, and nobody was called
C15_Witness ==
  /\ stack = <<"debounce">> /\ op.kind = "set" /\ op.arg = Lit(2)
  /\ timers[1] = Pending(Lit(2)) /\ current = 0 /\ op.pre = 0
  /\ listeners # <<>> /\ Len(trace) = 1

----------------------------------------------------------------------------
(* Claims about withEffect, checked under SpecEffect *)

\* the invocations of the effect by the subscription of the effect layer k
EffectCalls(tr, k) ==
  {i \in DOMAIN tr : /\ tr[i].ev = "effect" /\ tr[i].layer = k
                     /\ tr[i].l = EffectListener(k)}

\* every invocation of the effect made at composition or by the call just made
EffectEvents == {i \in Idx : trace[i].ev = "effect"}

\* C16: every change of the value invokes the effect at once with the value
\* stored and the enhancer's previous, which is the value of the last
\* invocation that returned (the value at composition before any): previous
\* is assigned only after the effect returns, so an effect that fails leaves
\* it as it was.  While previous is in step with the container, the i-th
\* change invokes the effect with (vi, v(i-1)), the value stored and the value
\* held just before it
C16_EffectGetsValueAndPrevious ==
  [][ \A k \in EffectLayers :
        LET E == EffectCalls(trace', k)
        IN  /\ \A i \in E :
                 LET earlier == {j \in E : j < i}
                     before == IF earlier = {} THEN previous[k]
                               ELSE trace'[MaxOf(earlier)].v
                 IN  /\ trace'[i].arg = Lit(before)
                     /\ trace'[i].v = (ValueBefore(i))'
                     /\ i > 2
                     /\ trace'[i - 1] = Ev("call", 0, EffectListener(k), Lit(0),
                                           trace'[i].v, trace'[i].depth)
                     /\ trace'[i - 2].ev = "store"
                     /\ trace'[i - 2].v = trace'[i].v
                     /\ previous[k] = current =>
                          trace'[i].arg = Lit((ValueBefore(i - 2))')
            /\ \A i \in DOMAIN trace' : trace'[i].ev = "store" => i + 2 \in E
            /\ E = {} => previous'[k] = previous[k]
            /\ (op'.threw = "" /\ E # {}) => previous'[k] = current'
            /\ (op'.threw = "" /\ previous[k] = current)
                  => previous'[k] = current'
            /\ op'.threw = "effect" =>
                 /\ E # {}
                 /\ Lit(previous'[k]) = trace'[MaxOf(E)].arg
                 /\ trace'[Len(trace')].ev = "throw"
    ]_vars

\* C16 witness: set(5) on compose(state(0), withEffect(f)) with the clamping
\* listener subscribed: the value changes to 5 and then to 3, and f is
\* invoked with (5, 0) and then with (3, 5)
C16_Witness ==
  /\ stack = <<"effect">> /\ op.kind = "set" /\ op.pre = 0
  /\ \E i, j \in EffectCalls(trace, 1) :
       /\ i < j
       /\ trace[i].v = 5 /\ trace[i].arg = Lit(0)
       /\ trace[j].v = 3 /\ trace[j].arg = Lit(5)
  /\ previous[1] = 3 /\ current = 3

\* C17 as claimed: withEffect(f, {immediate: true}) has invoked f exactly once
\* when compose returns, with (initial, initial)
C17_Original ==
  (op.kind = "init" /\ stack = <<"effectNow">>) =>
    /\ Cardinality(EffectEvents) = 1
    /\ \A i \in EffectEvents : trace[i].v = current /\ trace[i].arg = Lit(current)

\* C18 as claimed: withEffect(f) without the immediate flag has not invoked f
\* when compose returns
C18_Original ==
  (op.kind = "init" /\ stack = <<"effect">>) => EffectEvents = {}

\* C19 as claimed: a set on a container composed with withEffect completes
\* without failure whatever the effect does
C19_Original ==
  (op.kind = "set" /\ EffectLayers # {}) => op.threw = ""

----------------------------------------------------------------------------
(* Claims about the external sync enhancers, checked under SpecSync *)

\* the reads of the external surface that were decoded and merged
HydrationReads == {i \in Idx : trace[i].ev = "decode"}

\* C20: a sync enhancer hydrates at composition and at no later call.  With
\* a window, withUrlParams and withHashParams always do, withStorage does when
\* a record is stored and parses; the hydration makes one set call on the
\* container the enhancer received, with a new object in which every field
\* the codec decoded from the external surface has the external value and
\* every other field has the value it had before
C20_HydrationMergesOnce ==
  /\ op.kind # "init" => HydrationReads = {}
  /\ op.kind = "init" =>
       \A k \in SyncLayers :
         LET D == {i \in HydrationReads : trace[i].layer = k}
         IN  /\ Cardinality(D) <= 1
             /\ (window /\ stack[k] \in {"url", "hash"}) => D # {}
             /\ ~window => D = {}
             /\ D = {} => current = op.pre
             /\ \A i \in D :
                  /\ trace[i].v = op.pre
                  /\ current # op.pre
                  /\ \A f \in {"a", "b"} :
                       Fields(current)[f] =
                         IF trace[i].arg[f] \in {"1", "2"}
                         THEN Parse(trace[i].arg[f])
                         ELSE Fields(op.pre)[f]
                  /\ i + 2 \in Idx
                  /\ trace[i + 1].ev = "enter" /\ trace[i + 1].layer = k - 1
                  /\ trace[i + 1].arg = Lit(current)
                  /\ trace[i + 2].ev = "store" /\ trace[i + 2].v = current

\* C20 witness: compose(state({a: 1, b: 1}), withStorage(key)) with the record
\* {a: '2'} stored: after composition the value is {a: 2, b: 1}
C20_Witness ==
  /\ op.kind = "init" /\ stack = <<"storage">> /\ window
  /\ Fields(op.pre) = [a |-> 1, b |-> 1]
  /\ \E i \in HydrationReads : trace[i].arg.a = "2" /\ trace[i].arg.b = ""
  /\ Fields(current) = [a |-> 2, b |-> 1]

\* the surface of the layer k holds the encoding of the value held
InSync(k) == surface[k] = Surface("ok", Encode(current))

\* C22: with a window and no failing write, the surface of a sync enhancer
\* holds the encoding of the whole value get() returns once composition and
\* every later call has returned (for withStorage the record is the
\* serialized encoding): the outbound callback is the first listener, and it
\* is called with the value when it is subscribed and right after every store
C22_SurfaceHoldsEncoding ==
  window =>
    \A k \in SyncLayers :
      /\ InSync(k)
      /\ op.kind = "init" =>
           \E i \in Idx :
             /\ i + 1 \in Idx
             /\ trace[i] = Ev("replay", 0, SyncListener(k), Lit(0), current, 0)
             /\ trace[i + 1].ev = "write" /\ trace[i + 1].v = current
      /\ \A i \in Idx : (op.kind # "init" /\ trace[i].ev = "store") =>
           /\ i + 2 \in Idx
           /\ trace[i + 1] = Ev("call", 0, SyncListener(k), Lit(0),
                                trace[i].v, trace[i].depth)
           /\ trace[i + 2].ev = "write" /\ trace[i + 2].v = trace[i].v

\* C22 witness: set({a: 2}) on compose(state({a: .., b: 1}), withStorage(key)):
\* the record holds a = '2' and no longer has the key b
C22_Witness ==
  /\ op.kind = "set" /\ stack = <<"storage">> /\ window
  /\ Fields(op.pre).b = 1 /\ Fields(current) = [a |-> 2, b |-> Absent]
  /\ surface[1] = Surface("ok", [a |-> "2", b |-> ""])

\* C23 as claimed: when the encoding or the write fails during the outbound
\* propagation of a set, the set returns normally, the new value is held and
\* the other listeners are notified
C23_Original ==
  (op.kind = "set" /\ \E i \in Idx : trace[i].ev = "writefail") =>
    /\ op.threw = ""
    /\ current = Resolve(op.arg, op.pre)
    /\ \A l \in SeqToSet(op.prels) : l > 0 => NumCalls(l) = 1

\* C27: without a window a sync enhancer returns the container it was given.
\* Composition reads nothing, writes nothing and subscribes nothing, and
\* every later set, subscribe and unsubscribe does exactly what it does on
\* the base container
C27_NoWindowNoSync ==
  /\ [](~window =>
          /\ \A i \in DOMAIN listeners : listeners[i] > 0
          /\ \A k \in SyncLayers : surface[k] = Surface("none", NoData)
          /\ \A k \in InboundLayers : ~attached[k]
          /\ op.kind = "init" => (trace = <<>> /\ current = op.pre))
  /\ [][ ~window =>
           LET r == IF op'.kind = "set" THEN StateSet(Machine, op'.arg)
                    ELSE IF op'.kind = "subscribe"
                    THEN StateSubscribe(Machine, op'.l)
                    ELSE StateUnsubscribe(Machine, op'.l)
           IN  /\ current' = r.cur
               /\ listeners' = Compact(r.ls)
               /\ trace' = r.trace
               /\ op'.threw = r.threw
               /\ surface' = surface
     ]_vars

\* C27 witness: set on compose(state(v), withStorage(key)) without a window,
\* with one subscriber: the value is stored, the subscriber called, and
\* nothing else happened
C27_Witness ==
  /\ ~window /\ stack = <<"storage">> /\ op.kind = "set"
  /\ current # op.pre /\ listeners = <<1>>
  /\ Len(trace) = 3 /\ trace[3].ev = "call" /\ trace[3].l = 1
  /\ surface[1] = Surface("none", NoData)

\* C28 as claimed: no outbound write of withUrlParams or withHashParams adds
\* an entry to the session history
C28_Original ==
  op.kind = "set" =>
    \A i \in Idx : trace[i].ev = "write" => trace[i].arg = Lit(0)

----------------------------------------------------------------------------
(* Claims about the window events, checked under SpecInbound *)

\* C25 as claimed: every popstate/hashchange after composition is decoded and
\* merged into the container, whatever subscribe, unsubscribe and set calls
\* were made before
C25_Original ==
  (op.kind = "external" /\ window) =>
    \E i \in HydrationReads :
      /\ trace[i].layer = op.layer
      /\ Fields(current) = Merge(Fields(op.pre), Decode(trace[i].arg))

\* C26: the unsubscribe function of any subscriber removes the
\* popstate/hashchange handler, and only the callback of that subscriber from
\* the listeners; the handler is never registered again, so every later
\* external change leaves the value as it is and calls no subscriber, while
\* a set that changes the value still writes its encoding to the address bar
C26_AnyUnsubscribeRemovesHandler ==
  [][ \A k \in InboundLayers :
        /\ op'.kind = "unsubscribe" =>
             /\ ~attached'[k]
             /\ listeners' = Compact(SetDelete(listeners, op'.l))
             /\ SyncListener(k) \in SeqToSet(listeners') <=> window
        /\ ~attached[k] => ~attached'[k]
        /\ op'.kind # "unsubscribe" => attached'[k] = attached[k]
        /\ (op'.kind = "external" /\ op'.layer = k /\ ~attached[k]) =>
             /\ current' = current
             /\ listeners' = listeners
             /\ trace' = <<>>
        /\ (op'.kind = "external" /\ op'.layer = k /\ attached[k]) =>
             \E i \in DOMAIN trace' : trace'[i].ev = "decode"
        /\ (op'.kind = "set" /\ window /\ current' # current) =>
             /\ \E i \in DOMAIN trace' :
                  trace'[i].ev = "write" /\ trace'[i].v = current'
             /\ InSync(k)'
    ]_vars

\* C26 witness: two callbacks were subscribed and one unsubscribed; the
\* address bar has changed since, the other callback is still registered, and
\* neither it nor the container was given the change
C26_Witness ==
  /\ op.kind = "external" /\ stack = <<"url">>
  /\ ~attached[1] /\ 1 \in SeqToSet(listeners) /\ 2 \notin SeqToSet(listeners)
  /\ \E h \in unsubs : h.cb = 2 /\ h.called
  /\ trace = <<>> /\ current = op.pre
  /\ surface[1] = Surface("ok", [a |-> "2", b |-> ""])
  /\ Fields(current).a = 1

-----------------------------------------------------------------------------
(* Claims about a sync enhancer composed with a validation gate or a
   debounce, checked under SpecLayered *)

\* the layer whose set the sync layer k calls: the nearest layer below k that
\* overrides set, or the base container
SetBelow(k) ==
  LET G == {j \in 1 .. k - 1 : stack[j] \in Enhancers}
  IN  IF G = {} THEN 0 ELSE MaxOf(G)

\* C21: the merge of a hydration or of a window event is written with the set
\* of the container the sync enhancer received.  The call enters the nearest
\* validation gate or debounce declared before the enhancer (a rejected merge
\* is not stored, a debounced merge is left pending), it enters no layer
\* declared after the enhancer, and with none declared before it the merge is
\* stored as it is, accepted by a later validation gate or not
C21_MergeGoesThroughLayersBelow ==
  op.kind \in {"init", "external"} =>
    \A i \in HydrationReads :
      LET k == trace[i].layer
          g == SetBelow(k)
      IN  /\ i + 1 \in Idx
          /\ trace[i + 1].ev = "enter" /\ trace[i + 1].layer = g
          /\ trace[i + 1].arg.k = "lit"
          /\ IsObject(trace[i + 1].arg.v)
          /\ Fields(trace[i + 1].arg.v)
               = Merge(Fields(trace[i].v), Decode(trace[i].arg))
          /\ \A j \in Idx : trace[j].ev = "enter" => trace[j].layer < k
          /\ g = 0 =>
               /\ i + 2 \in Idx /\ trace[i + 2].ev = "store"
               /\ trace[i + 2].v = trace[i + 1].arg.v
               /\ current = trace[i + 1].arg.v
          /\ (g > 0 /\ stack[g] = "validation"
                /\ ~Validate(trace[i + 1].arg.v).ok) =>
               /\ trace[i + 2].ev = "throw" /\ NumStores = 0
               /\ current = op.pre
          /\ (g > 0 /\ stack[g] = "validation"
                /\ Validate(trace[i + 1].arg.v).ok) =>
               /\ trace[i + 2].ev = "enter" /\ trace[i + 2].layer = 0
               /\ current = trace[i + 1].arg.v
          /\ (g > 0 /\ stack[g] = "debounce") =>
               /\ NumStores = 0 /\ current = op.pre
               /\ timers[g] = Pending(trace[i + 1].arg)

\* an external change has stored a value the validation gate declared after
\* withUrlParams rejects
C21_Witness ==
  /\ op.kind = "external" /\ stack = <<"url", "validation">>
  /\ HydrationReads # {} /\ NumStores = 1
  /\ Validate(op.pre).ok /\ ~Validate(current).ok

\* a window event whose merge the validation gate declared before
\* withUrlParams has rejected
C21_WitnessBelow ==
  /\ op.kind = "external" /\ stack = <<"validation", "url">>
  /\ HydrationReads # {} /\ op.threw = "validation" /\ current = op.pre

\* C24 as stated: no failure of a hydration reaches the caller of compose,
\* and after a failed hydration the container has its initial value
C24_Original ==
  op.kind = "init" =>
    /\ op.threw = ""
    /\ (\E i \in Idx : trace[i].ev = "throw") => current = op.pre

-----------------------------------------------------------------------------
(* Claims about the counter of examples/basic.ts, checked under SpecCounter *)

\* C30 as stated: right after composition get() is the initial value when no
\* record is stored and the number of the record when one is stored; set(5)
\* makes the value 5 and set(prev => prev + 1) then makes it 6
C30_Original ==
  /\ op.kind = "init" =>
       /\ HydrationReads = {} => current = op.pre
       /\ \A i \in HydrationReads :
            NumberRecord(current).a = trace[i].arg.a
  /\ (op.kind = "set" /\ 2 \notin SeqToSet(listeners)) =>
       /\ op.arg = Lit(5) => current = 5
       /\ (op.arg = Upd("inc") /\ op.pre = 5) => current = 6

-----------------------------------------------------------------------------
(* Claims about two containers given the same stack, checked under
   SpecPair *)

\* the fields the second container holds right after the stack is applied
\* to it, were it applied now
OtherHydrated == Fields(ComposeOther.cur)

\* a call on the container the calls are made on: no turn to the other one
CallOnOne == op'.kind \in {"set", "timer"}

C29_WitnessStorage ==
  /\ op.kind = "init" /\ stack = <<"storage">> /\ other.composed
  /\ Fields(op.pre).a = Absent /\ Fields(current).a = 2
  /\ Fields(other.cur).a = 2

-----------------------------------------------------------------------------
(* Claims about what the listeners of the base container have been handed,
   checked under Spec *)

\* the invocations of the callback l in the trace tr
CallsOf(tr, l) == {i \in DOMAIN tr : IsCall(tr[i]) /\ tr[i].l = l}

\* C31: on the base container, between calls, the value last handed to every
\* registered listener is the one get() returns.  Every call keeps it so: a
\* callback registered by the call is invoked by it, a listener the call
\* invokes is handed last the value held when the call returns, re-entrant
\* sets included, and a call that invokes a registered listener not at all
\* leaves the value as it was
C31_LastDeliveredIsCurrent ==
  [][op'.threw = "" =>
       \A l \in SeqToSet(listeners') :
         LET D == CallsOf(trace', l)
         IN  /\ l \notin SeqToSet(listeners) => D # {}
             /\ D # {} => trace'[MaxOf(D)].v = current'
             /\ D = {} => current' = current]_vars

\* C31 witness: set(5) with the clamping listener registered before a plain
\* one: the plain listener is handed 3 by the re-entrant set and 3 again by
\* the round of set(5), and get() is 3
C31_Witness ==
  /\ op.kind = "set" /\ op.arg = Lit(5) /\ listeners = <<2, 1>>
  /\ current = ClampAt /\ Reentered
  /\ \E i, j \in CallsOf(trace, 1) :
       /\ i < j /\ trace[i].depth = 1 /\ trace[j].depth = 0
       /\ trace[i].v = ClampAt /\ trace[j].v = ClampAt

-----------------------------------------------------------------------------
(* Claims about listeners that throw, checked under SpecThrow *)

\* the throws of the call just made
Throws == {i \in Idx : trace[i].ev = "throw"}

\* C32: when a listener throws during a notification round of the base
\* container, the set call fails with its exception and nothing more is
\* done: the value stored is not rolled back, and in every round under way
\* the listeners registered after the one being invoked are not notified
C32_ThrowEndsRoundKeepsValue ==
  (op.kind = "set" /\ op.threw # "") =>
    /\ op.threw = "listener"
    /\ Throws = {Len(trace)}
    /\ LET t == Len(trace) - 1
       IN  /\ trace[t].ev = "call" /\ trace[t].l = trace[t + 1].l
           /\ trace[t].l \in Throwers
           /\ trace[t].v = current /\ current = ValueBefore(t + 1)
           /\ current # op.pre
    /\ listeners = op.prels
    /\ \A i \in BaseEnters : trace[i].v # ValueBefore(i) =>
         LET called == RoundListeners(i)
         IN  /\ called # <<>> /\ Len(called) <= Len(listeners)
             /\ called = SubSeq(listeners, 1, Len(called))

\* C32 witness: set(5) with the throwing callback registered before a plain
\* one: 5 is stored, the call fails, and the plain callback is not invoked
C32_Witness ==
  /\ op.kind = "set" /\ op.arg = Lit(5) /\ op.threw = "listener"
  /\ listeners = <<3, 1>> /\ current = 5 /\ op.pre = 0
  /\ NumCalls(3) = 1 /\ NumCalls(1) = 0

-----------------------------------------------------------------------------
(* Claims about the arguments of the effect, checked under SpecReenter *)

\* the event at which the invocation of the effect at index i of tr is over:
\* the first later event that is not nested in it, or the end of the call
ReturnOf(tr, i) ==
  LET after == {j \in DOMAIN tr : j > i /\ tr[j].depth <= tr[i].depth}
  IN  IF after = {} THEN Len(tr) + 1
      ELSE CHOOSE j \in after : \A j2 \in after : j <= j2

\* the invocation at index i has returned by the event at index n: it is over
\* and no exception has left it
ReturnedBy(tr, i, n) ==
  /\ ReturnOf(tr, i) <= n
  /\ \A t \in DOMAIN tr : tr[t].ev = "throw" => ReturnOf(tr, i) < t

\* C33 as stated: the prev argument of every invocation of the effect is the
\* value argument of the invocation made just before it
C33_Original ==
  [][\A k \in EffectLayers :
       LET E == EffectCalls(trace', k)
       IN  \A i \in E :
             LET earlier == {j \in E : j < i}
                 before == EffectCalls(trace, k)
             IN  /\ earlier # {} =>
                      trace'[i].arg = Lit(trace'[MaxOf(earlier)].v)
                 /\ (earlier = {} /\ before # {}) =>
                      trace'[i].arg = Lit(trace[MaxOf(before)].v)]_vars

\* C33, amended: the prev argument of every invocation of the effect is the
\* value argument of the invocation that returned last before it began, or
\* the value at composition when none has returned: an invocation that is
\* still running (the effect has called set) or that threw does not count.
\* previous holds that value between calls
C33_PrevIsLastReturned ==
  [][\A k \in EffectLayers :
       LET E == EffectCalls(trace', k)
           R == {j \in E : ReturnedBy(trace', j, Len(trace') + 1)}
       IN  /\ \A i \in E :
                LET done == {j \in E : j < i /\ ReturnedBy(trace', j, i)}
                    last == CHOOSE j \in done : \A j2 \in done :
                              ReturnOf(trace', j2) <= ReturnOf(trace', j)
                IN  trace'[i].arg
                      = Lit(IF done = {} THEN previous[k] ELSE trace'[last].v)
           /\ R = {} => previous'[k] = previous[k]
           /\ R # {} =>
                previous'[k]
                  = trace'[CHOOSE j \in R : \A j2 \in R :
                             ReturnOf(trace', j2) <= ReturnOf(trace', j)].v]_vars

\* C33 witness: set(5) on compose(base, withEffect(h)) for the h that writes
\* ClampAt: h is invoked with (5, 0), and from inside it with (3, 0), not
\* (3, 5); previous ends as 5 while the container holds 3
C33_Witness ==
  /\ stack = <<"effectClamp">> /\ op.kind = "set" /\ op.pre = 0
  /\ \E i, j \in EffectCalls(trace, 1) :
       /\ i < j /\ trace[j].depth = trace[i].depth + 1
       /\ trace[i].v = 5 /\ trace[i].arg = Lit(0)
       /\ trace[j].v = ClampAt /\ trace[j].arg = Lit(0)
  /\ previous[1] = 5 /\ current = ClampAt

-----------------------------------------------------------------------------
(* Claims about the values a validated container holds, checked under
   SpecStack *)

\* the values the validator returns for some candidate it accepts
Accepted == {Validate(v).value : v \in {w \in Values : Validate(w).ok}}

\* C34: on a stack with a validation gate where every write is a set on the
\* composed container, get() is the initial value or a value the validator
\* returned for a candidate it accepted.  Composition validates nothing and
\* leaves the initial value in place, and every later step leaves the value
\* as it is or stores an accepted value
C34_HoldsInitialOrAccepted ==
  /\ [](( /\ op.kind = "init"
          /\ \E k \in DOMAIN stack : stack[k] = "validation" ) =>
          /\ current = op.pre /\ op.threw = ""
          /\ \A i \in Idx : trace[i].ev # "enter")
  /\ [][(\E k \in DOMAIN stack : stack[k] = "validation") =>
          (current' = current \/ current' \in Accepted)]_vars

\* C34 witness: compose(state(0), withValidation(S)) for the S that rejects
\* 0: the container holds the initial 0, a value S never returns, and a set
\* call on it has just been rejected
C34_Witness ==
  /\ stack = <<"validation">> /\ op.kind = "set" /\ op.threw = "validation"
  /\ current = 0 /\ ~Validate(current).ok /\ current \notin Accepted

-----------------------------------------------------------------------------
(* Claims about the debounced write, checked under SpecDebounce *)

\* C35: the debounce layer keeps the argument of set as it is, an updater
\* uncalled, and the value is not touched; when the timer fires the updater
\* is called once, with the value the inner container holds at that moment,
\* whatever it held when set was called.  A set replaces the pending
\* argument, so of several updaters set in one window the last alone is
\* called
C35_UpdaterRunsWhenTimerFires ==
  [][/\ op'.kind = "set" =>
          /\ timers'[1] = Pending(op'.arg)
          /\ current' = current
          /\ trace' = <<Ev("enter", 1, 0, op'.arg, 0, 0)>>
     /\ (op'.kind = "timer" /\ op'.arg.k # "lit") =>
          /\ timers[1] = Pending(op'.arg)
          /\ trace'[1]
               = Ev("enter", 0, 0, op'.arg, ApplyUpdater(op'.arg.k, current), 0)
          /\ Cardinality({i \in DOMAIN trace' :
                            /\ trace'[i].ev = "enter"
                            /\ trace'[i].arg = op'.arg}) = 1
          /\ current' = ApplyUpdater(op'.arg.k, current)]_vars

\* the base container was written to while an updater was pending
C35_ChangedWhilePending ==
  /\ op.kind = "baseset" /\ current # op.pre
  /\ timers[1] = Pending(Upd("inc"))

\* C35 witness: the timer fires with prev => prev + 1 pending and the value
\* becomes 5 + 1, one more than the inner container held at that moment
C35_Witness ==
  /\ stack = <<"debounce">> /\ op.kind = "timer" /\ op.arg = Upd("inc")
  /\ op.pre = 5 /\ current = 6 /\ ~timers[1].pending

\* no call is made on the container or on its base any more: what happens is
\* the firing of timers
Quiet == op.kind = "timer"

\* C36: a set on the debounce layer leaves its own argument as the one
\* pending write, whatever was pending before; the firing of the timer hands
\* that argument to the inner container and leaves nothing pending unless a
\* listener calls set during the notification, and get() then returns the
\* value written.  When the calls have stopped and the timers fire, the time
\* comes after which nothing is pending
C36_LastWriteEventuallyApplied ==
  /\ [][/\ op'.kind = "set" => timers'[1] = Pending(op'.arg)
        /\ op'.kind = "timer" =>
             /\ timers[1] = Pending(op'.arg)
             /\ current' = Resolve(op'.arg, current)
             /\ EntersAt(trace', 1) = {} => ~timers'[1].pending]_vars
  /\ (<>[]Quiet) => <>[](~timers[1].pending)

\* C36 witness: the timer has fired with the write of the last of the set
\* calls, set(2), and nothing is pending; get() returns 2
C36_Witness ==
  /\ stack = <<"debounce">> /\ op.kind = "timer" /\ op.arg = Lit(2)
  /\ op.pre = 0 /\ current = 2 /\ ~timers[1].pending /\ listeners = <<2>>

\* compose(s, withDebounce(ms), withUrlParams()), in a browser
DebounceThenUrl == stack = <<"debounce", "url">> /\ window

\* C37: with withDebounce declared before withUrlParams, the composition
\* leaves the merge of the decoded fields pending on the timer and get()
\* returns the value the container had before; a set on the composed
\* container replaces the pending merge by its own argument and stores
\* nothing, and the timer writes the pending argument and nothing else, so a
\* merge that a set has replaced is not written
C37_HydrationOnlyScheduled ==
  /\ [](DebounceThenUrl /\ op.kind = "init" =>
          /\ current = op.pre
          /\ trace[1].ev = "decode"
          /\ timers[1].pending /\ timers[1].arg.k = "lit"
          /\ Fields(timers[1].arg.v)
               = Merge(Fields(op.pre), Decode(trace[1].arg)))
  /\ [][DebounceThenUrl =>
          /\ op'.kind = "set" =>
               /\ timers'[1] = Pending(op'.arg)
               /\ current' = current
          /\ op'.kind = "timer" =>
               /\ timers[1] = Pending(op'.arg)
               /\ current' = Resolve(op'.arg, current)]_vars

\* C37 witness: the container is composed, the URL supplies a field the
\* initial value does not have, the merge is pending and get() returns the
\* initial value
C37_Witness ==
  /\ DebounceThenUrl /\ op.kind = "init" /\ current = op.pre
  /\ timers[1].pending
  /\ Fields(timers[1].arg.v).a = 2 /\ Fields(current).a # 2

\* a set has replaced the pending merge while the container still holds its
\* initial value
C37_WitnessCancelled ==
  /\ DebounceThenUrl /\ op.kind = "set" /\ timers[1] = Pending(op.arg)
  /\ RefOf(current) = 0 /\ Fields(current).a # 2
  /\ surface[2] = Surface("ok", Encode(current))

\* the reads of the surface of the layer k in the last call
DecodesOf(k) == {i \in Idx : trace[i].ev = "decode" /\ trace[i].layer = k}

\* C38: when the two sync enhancers of a stack both decode a value for a
\* field at composition, the container holds the value the later-declared
\* enhancer decoded, and the surface of the earlier-declared enhancer holds
\* the encoding of that value in place of the one it supplied
C38_LaterDeclaredWins ==
  (op.kind = "init" /\ window /\ decl \in TwoSyncSeqs) =>
    \A i \in DecodesOf(1), j \in DecodesOf(2), f \in {"a", "b"} :
      (Decode(trace[i].arg)[f] # Absent /\ Decode(trace[j].arg)[f] # Absent) =>
        /\ Fields(current)[f] = Decode(trace[j].arg)[f]
        /\ surface[1][f] = Stringify(Decode(trace[j].arg)[f])
        /\ surface[1].status = "ok"

\* C38 witness: compose(s, withUrlParams(), withStorage(k)) with a=1 in the
\* URL and a=2 in the stored record: the container holds a = 2 and the URL
\* reads a=2
C38_Witness ==
  /\ op.kind = "init" /\ window /\ decl = <<"url", "storage">>
  /\ \E i \in DecodesOf(1), j \in DecodesOf(2) :
       trace[i].arg.a = "1" /\ trace[j].arg.a = "2"
  /\ Fields(current).a = 2 /\ surface[1].a = "2"

\* the codec gives back the fields it was given
RoundTrips == \A fs \in FieldRecs : Decode(Encode(Obj(0, fs))) = fs

\* C39: with withHashParams, a set that changes the hash is followed by one
\* hashchange event.  When the handler is registered its merge stores a new
\* object with the fields the container has, every subscriber is called once
\* more, and the hash is written again with the fragment it shows, so that
\* no further event follows; when the handler has been removed the event
\* changes nothing.  A set that leaves the hash as it is has no event
C39_OneEchoThenStable ==
  /\ [](RoundTrips /\ (op.kind = "set" /\ op.pre = current
                          => ~HashChangePending(1)))
  /\ [][op'.kind = "hashchange" =>
          /\ ~HashChangePending(1)'
          /\ surface' = surface
          /\ Fields(current') = Fields(current)
          /\ attached[1] =>
               /\ current' # current
               /\ Cardinality({i \in DOMAIN trace' : trace'[i].ev = "store"}) = 1
               /\ \A j \in DOMAIN listeners :
                    Cardinality({i \in DOMAIN trace' :
                                   /\ IsCall(trace'[i])
                                   /\ trace'[i].l = listeners[j]}) >= 1
          /\ ~attached[1] => current' = current /\ trace' = <<>>]_vars

\* C39 witness: set has changed the field a to 1, the hash then read a=1,
\* and the hashchange event has stored a second object with a = 1 and called
\* the subscriber again
C39_Witness ==
  /\ stack = <<"hash">> /\ op.kind = "hashchange" /\ attached[1]
  /\ current # op.pre /\ Fields(current) = Fields(op.pre)
  /\ Fields(current).a = 1 /\ surface[1].a = "1"
  /\ listeners = <<SyncListener(1), 1>> /\ NumCalls(1) = 1
  /\ ~HashChangePending(1)

====
